---------------------------- MODULE Spec2Model ----------------------------
(***************************************************************************)
(* A model of gcs_copy.go: a command-line copier between the local file    *)
(* system and Google Cloud Storage buckets.  Paths, bucket names, object   *)
(* keys and file contents are strings; the library routines the program    *)
(* calls (regexp, path/filepath, os, the storage client) are modelled by   *)
(* what they do on those strings.                                          *)
(***************************************************************************)
EXTENDS Integers, Sequences, FiniteSets, TLC

(***************************************************************************)
(* Strings                                                                 *)
(***************************************************************************)

\* The i-th byte of s, as a one-byte string.
Char(s, i) == SubSeq(s, i, i)

\* s[from-1:] in Go's notation: the bytes of s from position `from` on.
StrFrom(s, from) == SubSeq(s, from, Len(s))

\* strings.HasPrefix
HasPrefix(s, p) == Len(s) >= Len(p) /\ SubSeq(s, 1, Len(p)) = p

\* strings.HasSuffix
HasSuffix(s, suf) ==
    Len(s) >= Len(suf) /\ SubSeq(s, Len(s) - Len(suf) + 1, Len(s)) = suf

\* The positions of byte c in s.
Positions(s, c) == {i \in 1..Len(s) : Char(s, i) = c}

Min(S) == CHOOSE m \in S : \A n \in S : m <= n
Max(S) == CHOOSE m \in S : \A n \in S : m >= n

\* The bytes the model's strings are made of, in increasing byte value.
Alphabet == "\n./:DEabdgkosx"

\* The rank of a byte in byte order.
Code(c) == CHOOSE i \in 1..Len(Alphabet) : Char(Alphabet, i) = c

\* Byte-wise lexicographic order on strings: Go's s < t.
StrLess(s, t) ==
    \E i \in 1..(Len(t)) :
        /\ i <= Len(s) + 1
        /\ SubSeq(s, 1, i - 1) = SubSeq(t, 1, i - 1)
        /\ \/ i = Len(s) + 1
           \/ i <= Len(s) /\ Code(Char(s, i)) < Code(Char(t, i))

\* The strings of a finite set in increasing order (sort.Strings).
RECURSIVE SortStrings(_)
SortStrings(S) ==
    IF S = {} THEN <<>>
    ELSE LET m == CHOOSE a \in S : \A b \in S \ {a} : StrLess(a, b)
         IN  <<m>> \o SortStrings(S \ {m})

\* s split at every "/" (strings.Split(s, "/")).
RECURSIVE SplitSlash(_)
SplitSlash(s) ==
    IF Positions(s, "/") = {} THEN <<s>>
    ELSE LET i == Min(Positions(s, "/"))
         IN  <<SubSeq(s, 1, i - 1)>> \o SplitSlash(StrFrom(s, i + 1))

\* The elements of a sequence of strings joined by "/".
RECURSIVE JoinSlash(_)
JoinSlash(elems) ==
    IF elems = <<>> THEN ""
    ELSE IF Len(elems) = 1 THEN elems[1]
    ELSE elems[1] \o "/" \o JoinSlash(Tail(elems))


(***************************************************************************)
(* regexp: gcsRegexp and splitGcsPath                                      *)
(***************************************************************************)

\* The submatches of ^gs://([^/]*)/(.*)$ against s, as <<bucket, key>> pairs:
\* "[^/]" is any byte but "/" (a newline included), "." is any byte but a
\* newline, and "$" is the end of the text.  There is at most one.
gcsRegexp(s) ==
    { <<SubSeq(s, 6, i - 1), StrFrom(s, i + 1)>> : i \in
        { j \in 6..Len(s) :
            /\ HasPrefix(s, "gs://")
            /\ Char(s, j) = "/"
            /\ Positions(SubSeq(s, 6, j - 1), "/") = {}
            /\ Positions(StrFrom(s, j + 1), "\n") = {} } }

\* splitGcsPath: the bucket and the key, or an error.
splitGcsPath(path) ==
    LET matches == gcsRegexp(path)
    IN  IF matches # {}
        THEN LET m == CHOOSE x \in matches : TRUE
             IN  [bucket |-> m[1], key |-> m[2], err |-> FALSE]
        ELSE [bucket |-> "", key |-> "", err |-> TRUE]

(***************************************************************************)
(* path/filepath, with "/" as the separator                                *)
(***************************************************************************)

\* The lexical processing of filepath.Clean on the elements of a path:
\* empty elements and "." are dropped, ".." removes the element before it
\* (at the root it is dropped, at the start of a relative path it is kept).
RECURSIVE CleanElems(_, _, _)
CleanElems(elems, out, rooted) ==
    IF elems = <<>> THEN out
    ELSE LET c == Head(elems)
             rest == Tail(elems)
         IN  IF c = "" \/ c = "." THEN CleanElems(rest, out, rooted)
             ELSE IF c = ".."
             THEN IF out # <<>> /\ out[Len(out)] # ".."
                  THEN CleanElems(rest, SubSeq(out, 1, Len(out) - 1), rooted)
                  ELSE IF rooted THEN CleanElems(rest, out, rooted)
                  ELSE CleanElems(rest, Append(out, ".."), rooted)
             ELSE CleanElems(rest, Append(out, c), rooted)

\* filepath.Clean
Clean(p) ==
    IF p = "" THEN "."
    ELSE LET rooted == Char(p, 1) = "/"
             elems == CleanElems(SplitSlash(p), <<>>, rooted)
         IN  IF rooted THEN "/" \o JoinSlash(elems)
             ELSE IF elems = <<>> THEN "."
             ELSE JoinSlash(elems)

\* filepath.Join of two elements: the non-empty ones joined by the separator,
\* then cleaned; "" when both are empty.
Join(a, b) ==
    IF a # "" THEN Clean(a \o "/" \o b)
    ELSE IF b # "" THEN Clean(b)
    ELSE ""

\* filepath.Dir: everything up to the last separator, cleaned.
Dir(p) ==
    LET seps == Positions(p, "/")
    IN  IF seps = {} THEN Clean("") ELSE Clean(SubSeq(p, 1, Max(seps)))

\* The elements of a cleaned path.
Elems(p) ==
    IF p = "" THEN <<>>
    ELSE IF p = "/" THEN <<"">>
    ELSE SplitSlash(p)

\* filepath.Rel: targpath relative to basepath, or an error.
Rel(basepath, targpath) ==
    LET base0 == Clean(basepath)
        targ == Clean(targpath)
        base == IF base0 = "." THEN "" ELSE base0
        be == Elems(base)
        te == Elems(targ)
        common == Max({k \in 0..Len(be) :
                        k <= Len(te) /\ SubSeq(be, 1, k) = SubSeq(te, 1, k)})
        up == [i \in 1..(Len(be) - common) |-> ".."]
        down == SubSeq(te, common + 1, Len(te))
    IN  IF targ = base0 THEN [path |-> ".", err |-> FALSE]
        ELSE IF HasPrefix(base, "/") # HasPrefix(targ, "/")
        THEN [path |-> "", err |-> TRUE]
        ELSE IF common < Len(be) /\ be[common + 1] = ".."
        THEN [path |-> "", err |-> TRUE]
        ELSE [path |-> JoinSlash(up \o down), err |-> FALSE]

(***************************************************************************)
(* The state                                                               *)
(***************************************************************************)

VARIABLES
    args,        \* flag.Args(): the positional arguments
    pc,          \* where the process is: a routine's name, or "exited"
    exitStatus,  \* -1 while running, then the exit status
    cp,          \* main's locals: from, to and the two classifications
    files,       \* local regular files: cleaned path -> content
    dirs,        \* local directories: a set of cleaned paths
    objects,     \* bucket objects: <<bucket, key>> -> content
    handles,     \* the open local file handles of the process
    nfd,         \* the number of handles opened so far
    ops,         \* the I/O operations issued so far, in order
    log,         \* the lines logged so far
    calls,       \* the copy routines and callbacks invoked so far
    walk,        \* filepath.Walk's pending directories and names
    it,          \* the object iterator of a bucket listing
    before,      \* the local files, directories and objects as the run began
    runs         \* the completed runs: what each began with and left

vars == <<args, pc, exitStatus, cp, files, dirs, objects, handles, nfd, ops,
          log, calls, walk, it, before, runs>>

\* The part of the state the copy routines read and write.
World ==
    [files |-> files, dirs |-> dirs, objects |-> objects, handles |-> handles,
     nfd |-> nfd, ops |-> ops, log |-> log, calls |-> calls]

SetWorld(w) ==
    /\ files' = w.files
    /\ dirs' = w.dirs
    /\ objects' = w.objects
    /\ handles' = w.handles
    /\ nfd' = w.nfd
    /\ ops' = w.ops
    /\ log' = w.log
    /\ calls' = w.calls

Snapshot(w) == [files |-> w.files, dirs |-> w.dirs, objects |-> w.objects]

\* f with key k set to v.
Put(f, k, v) == [x \in DOMAIN f \cup {k} |-> IF x = k THEN v ELSE f[x]]

\* An I/O operation is issued: its name, what it is applied to, and whether it
\* succeeded.
Op(w, name, arg, ok) == [w EXCEPT !.ops = Append(@, <<name, arg, ok>>)]
Logged(w, line) == [w EXCEPT !.log = Append(@, line)]
Called(w, call) == [w EXCEPT !.calls = Append(@, call)]

\* What a routine hands back: the world it leaves, and whether it ended the
\* process through log.Fatal.
Return(w) == [w |-> w, fatal |-> FALSE]
Fatal(w, what) == [w |-> Logged(w, <<"Fatal", what>>), fatal |-> TRUE]

(***************************************************************************)
(* os: the local file system                                               *)
(***************************************************************************)

IsDir(w, p) == Clean(p) \in w.dirs

\* A path with a trailing separator names a directory only.
IsRegular(w, p) == Clean(p) \in DOMAIN w.files /\ ~HasSuffix(p, "/")

\* os.Stat, os.Lstat and os.Open succeed on what exists.
Exists(w, p) == IsDir(w, p) \/ IsRegular(w, p)

\* The directory itself and every ancestor of it below the working directory.
Ancestors(p) ==
    LET e == Elems(Clean(p))
    IN  IF Clean(p) = "." THEN {"."}
        ELSE {JoinSlash(SubSeq(e, 1, k)) : k \in 1..Len(e)}

\* os.MkdirAll fails when a regular file is in the way.
MkdirAllFails(w, p) == Ancestors(p) \cap DOMAIN w.files # {}

\* os.MkdirAll: the directory and all its missing ancestors.
MkdirAll(w, p) == [w EXCEPT !.dirs = @ \cup Ancestors(p)]

\* os.OpenFile(p, O_WRONLY|O_CREATE|O_TRUNC) fails on a directory and where
\* the parent directory is missing.
OpenFileFails(w, p) ==
    HasSuffix(p, "/") \/ Clean(p) \in w.dirs \/ Dir(Clean(p)) \notin w.dirs

\* O_CREATE|O_TRUNC: the file exists and is empty.
\* os.OpenFile without O_TRUNC: a file that is there keeps what it holds.
OpenFileNoTrunc(w, p) ==
    IF Clean(p) \in DOMAIN w.files THEN w
    ELSE [w EXCEPT !.files = Put(@, Clean(p), "")]

OpenFile(w, p) == [w EXCEPT !.files = Put(@, Clean(p), "")]

\* A new open handle; its number is w.nfd + 1.
Opened(w, p, mode) ==
    [w EXCEPT !.nfd = @ + 1,
              !.handles = @ \cup {[fd |-> w.nfd + 1, path |-> p, mode |-> mode]}]

\* (*os.File).Close
Closed(w, fd) == [w EXCEPT !.handles = {h \in @ : h.fd # fd}]

\* The first n bytes of content, or all of it.
Prefix(content, n) == SubSeq(content, 1, IF n < Len(content) THEN n ELSE Len(content))

\* The names in a directory, sorted (readDirNames).
readDirNames(w, dir) ==
    LET d == Clean(dir)
        entries == {p \in (DOMAIN w.files \cup w.dirs) \ {"."} : Dir(p) = d}
    IN  SortStrings({LET e == Elems(p) IN e[Len(e)] : p \in entries})

(***************************************************************************)
(* cloud.google.com/go/storage: the buckets                                *)
(***************************************************************************)

\* The buckets that exist.
Buckets == {"b", "o"}

HasObject(w, bucket, key) == <<bucket, key>> \in DOMAIN w.objects

\* Objects(ctx, &storage.Query{Prefix: prefix}): the names that begin with the
\* prefix, in lexicographic order.
ListObjects(w, bucket, prefix) ==
    SortStrings({o[2] : o \in {x \in DOMAIN w.objects :
                                 x[1] = bucket /\ HasPrefix(x[2], prefix)}})

\* An object cannot be written to a missing bucket or under the empty name.
WriteObjectFails(bucket, key) == bucket \notin Buckets \/ key = ""

(***************************************************************************)
(* The calls the transfers are made of                                     *)
(***************************************************************************)

\* Each takes what the routine has come to so far (r: the world, and whether
\* log.Fatal has ended the process, after which nothing more happens) and
\* hands back what it comes to after the call.  `fault` names the call an I/O
\* error is injected into ("none": no error).

\* A call whose error the program hands to log.Fatal.
Checked(r, name, arg, ok) ==
    IF r.fatal THEN r
    ELSE IF ok THEN Return(Op(r.w, name, arg, TRUE))
    ELSE Fatal(Op(r.w, name, arg, FALSE), name)

\* A call whose error the program drops.
Unchecked(r, name, arg, ok) ==
    IF r.fatal THEN r ELSE Return(Op(r.w, name, arg, ok))

\* log.Printf(`Copying from ... to ...`)
LogCopying(r, src, dst) ==
    IF r.fatal THEN r ELSE Return(Logged(r.w, <<"Copying", src, dst>>))

\* storage.NewClient(ctx)
NewClient(r, fault) ==
    Checked(r, "storage.NewClient", "", fault # "storage.NewClient")

\* client.Bucket(bucket).Object(key).NewReader(ctx)
NewReader(r, bucket, key, fault) ==
    Checked(r, "NewReader", <<bucket, key>>,
            fault # "NewReader" /\ HasObject(r.w, bucket, key))

\* os.Open(path): a handle is open for reading.
OsOpen(r, path, fault) ==
    IF r.fatal THEN r
    ELSE IF fault # "os.Open" /\ Exists(r.w, path)
    THEN Return(Opened(Op(r.w, "os.Open", path, TRUE), path, "r"))
    ELSE Fatal(Op(r.w, "os.Open", path, FALSE), "os.Open")

\* os.MkdirAll(dir, os.ModePerm)
OsMkdirAll(r, dir, fault) ==
    IF r.fatal THEN r
    ELSE IF fault # "os.MkdirAll" /\ ~MkdirAllFails(r.w, dir)
    THEN Return(MkdirAll(Op(r.w, "os.MkdirAll", dir, TRUE), dir))
    ELSE Fatal(Op(r.w, "os.MkdirAll", dir, FALSE), "os.MkdirAll")

\* os.OpenFile(path, os.O_WRONLY|os.O_CREATE|os.O_TRUNC, 0666): the file is
\* there and empty, and a handle is open for writing.
OsOpenFile(r, path, fault) ==
    IF r.fatal THEN r
    ELSE IF fault # "os.OpenFile" /\ ~OpenFileFails(r.w, path)
    THEN Return(Opened(OpenFile(Op(r.w, "os.OpenFile", path, TRUE), path), path, "w"))
    ELSE Fatal(Op(r.w, "os.OpenFile", path, FALSE), "os.OpenFile")

\* The bytes of content are written to the file at path, after what it holds:
\* the handle was opened by OsOpenFile, which left the file empty.
Written(w, path, content) ==
    [w EXCEPT !.files = Put(@, Clean(path), w.files[Clean(path)] \o content)]

\* io.Copy into the local file dst of the content read; when it fails, the
\* first n bytes have been written.
CopyToFile(r, dst, content, ok, n) ==
    IF r.fatal THEN r
    ELSE IF ok THEN Return(Written(Op(r.w, "io.Copy", dst, TRUE), dst, content))
    ELSE Fatal(Written(Op(r.w, "io.Copy", dst, FALSE), dst, Prefix(content, n)),
               "io.Copy")

\* What reading the local file at path gives now; reading a directory fails.
ReadFile(w, path) == IF IsRegular(w, path) THEN w.files[Clean(path)] ELSE ""

\* io.Copy(dst, src) between two local files: the source is read as it is
\* when the copy runs.
CopyFileToFile(r, src, dst, fault, n) ==
    CopyToFile(r, dst, ReadFile(r.w, src), fault # "io.Copy" /\ ~IsDir(r.w, src), n)

\* io.Copy(dstWriter, srcReader) from an object to a local file.
CopyObjectToFile(r, bucket, key, dst, fault, n) ==
    CopyToFile(r, dst, IF HasObject(r.w, bucket, key) THEN r.w.objects[<<bucket, key>>]
                       ELSE "",
               fault # "io.Copy", n)

\* io.Copy(dst, src) from a local file to an object writer.
CopyFileToWriter(r, src, bucket, key, fault) ==
    Checked(r, "io.Copy", <<bucket, key>>, fault # "io.Copy" /\ ~IsDir(r.w, src))

\* dst.Close() of an object writer: the object is committed with what was
\* copied from src.
WriterClose(r, src, bucket, key, fault) ==
    IF r.fatal THEN r
    ELSE IF fault # "Close" /\ ~WriteObjectFails(bucket, key)
    THEN Return([Op(r.w, "Close", <<bucket, key>>, TRUE) EXCEPT
                    !.objects = Put(@, <<bucket, key>>, ReadFile(r.w, src))])
    ELSE Fatal(Op(r.w, "Close", <<bucket, key>>, FALSE), "Close")

\* dst.Close() of the local file opened last, its error handed to log.Fatal.
FileClose(r, path, fault) ==
    IF r.fatal THEN r
    ELSE IF fault # "Close"
    THEN Return(Closed(Op(r.w, "Close", path, TRUE), r.w.nfd))
    ELSE Fatal(Op(r.w, "Close", path, FALSE), "Close")

\* defer dstWriter.Close() of the local file opened last: its error is dropped.
DeferredFileClose(r, path, fault) ==
    IF r.fatal THEN r
    ELSE Return(Closed(Op(r.w, "Close", path, fault # "Close"), r.w.nfd))

\* dstWriter.Sync()
Sync(r, path, fault) == Checked(r, "Sync", path, fault # "Sync")

\* CopierFrom(src).Run(ctx): the service copies the object.
CopierRun(r, srcBucket, srcKey, dstBucket, dstKey, fault) ==
    IF r.fatal THEN r
    ELSE IF /\ fault # "Copier.Run"
            /\ HasObject(r.w, srcBucket, srcKey)
            /\ ~WriteObjectFails(dstBucket, dstKey)
    THEN Return([Op(r.w, "Copier.Run", <<srcBucket, srcKey, dstBucket, dstKey>>, TRUE)
                    EXCEPT !.objects = Put(@, <<dstBucket, dstKey>>,
                                           r.w.objects[<<srcBucket, srcKey>>])])
    ELSE Fatal(Op(r.w, "Copier.Run", <<srcBucket, srcKey, dstBucket, dstKey>>, FALSE),
               "Copier.Run")

(***************************************************************************)
(* The single-file transfers                                               *)
(***************************************************************************)

\* n is the number of bytes a failing io.Copy wrote before the error.

copyFileFromGcsToLocal(w, srcBucket, srcFilePath, dstFilePath, fault, n) ==
    Unchecked(                                  \* defer srcReader.Close()
    DeferredFileClose(                          \* defer dstWriter.Close()
    Sync(
    CopyObjectToFile(
    OsOpenFile(
    OsMkdirAll(
    NewReader(
    LogCopying(
    NewClient(
        Return(Called(w, [fn |-> "copyFileFromGcsToLocal",
                          src |-> <<srcBucket, srcFilePath>>, dst |-> dstFilePath])),
        fault),
        srcFilePath, dstFilePath),
        srcBucket, srcFilePath, fault),
        Dir(dstFilePath), fault),
        dstFilePath, fault),
        srcBucket, srcFilePath, dstFilePath, fault, n),
        dstFilePath, fault),
        dstFilePath, fault),
        "Reader.Close", <<srcBucket, srcFilePath>>, fault # "Reader.Close")

copyFileFromLocalToGcs(w, srcFilePath, dstBucket, dstFilePath, fault, n) ==
    Unchecked(                                  \* defer client.Close()
    WriterClose(
    CopyFileToWriter(
    Unchecked(                                  \* NewWriter(ctx)
    LogCopying(
    OsOpen(
    NewClient(
        Return(Called(w, [fn |-> "copyFileFromLocalToGcs",
                          src |-> srcFilePath, dst |-> <<dstBucket, dstFilePath>>])),
        fault),
        srcFilePath, fault),
        srcFilePath, dstFilePath),
        "NewWriter", <<dstBucket, dstFilePath>>, TRUE),
        srcFilePath, dstBucket, dstFilePath, fault),
        srcFilePath, dstBucket, dstFilePath, fault),
        "Client.Close", "", fault # "Client.Close")

copyFileFromGcsToGcs(w, srcBucket, srcFilePath, dstBucket, dstFilePath, fault) ==
    Unchecked(                                  \* defer client.Close()
    CopierRun(
    LogCopying(
    NewClient(
        Return(Called(w, [fn |-> "copyFileFromGcsToGcs",
                          src |-> <<srcBucket, srcFilePath>>,
                          dst |-> <<dstBucket, dstFilePath>>])),
        fault),
        srcFilePath, dstFilePath),
        srcBucket, srcFilePath, dstBucket, dstFilePath, fault),
        "Client.Close", "", fault # "Client.Close")

copyFileFromLocalToLocal(w, srcFilePath, dstFilePath, fault, n) ==
    FileClose(
    CopyFileToFile(
    LogCopying(
    OsOpenFile(
    OsMkdirAll(
    OsOpen(
        Return(Called(w, [fn |-> "copyFileFromLocalToLocal",
                          src |-> srcFilePath, dst |-> dstFilePath])),
        srcFilePath, fault),
        Dir(dstFilePath), fault),
        dstFilePath, fault),
        srcFilePath, dstFilePath),
        srcFilePath, dstFilePath, fault, n),
        dstFilePath, fault)

(***************************************************************************)
(* filepath.Walk                                                           *)
(***************************************************************************)

\* Walk keeps, for every directory it is in, the names it has still to visit;
\* the innermost directory is last.  Directories with no names left are done.
RECURSIVE PopDone(_)
PopDone(frames) ==
    IF frames # <<>> /\ frames[Len(frames)].names = <<>>
    THEN PopDone(SubSeq(frames, 1, Len(frames) - 1))
    ELSE frames

\* What a visit comes to: the arguments walkFn is called with (the path,
\* whether it is a directory, and whether Lstat or reading the directory
\* failed), and the directories Walk is in once walkFn has returned nil: a
\* directory that was read is queued with its names.
Visit(w, frames, path, lstatOk, isDir, readOk) ==
    [w |-> IF lstatOk /\ isDir
           THEN Op(Op(w, "os.Lstat", path, TRUE), "readDirNames", path, readOk)
           ELSE Op(w, "os.Lstat", path, lstatOk),
     path |-> path,
     isDir |-> lstatOk /\ isDir,
     err |-> ~lstatOk \/ (isDir /\ ~readOk),
     frames |-> IF lstatOk /\ isDir /\ readOk
                THEN Append(frames, [path |-> path, names |-> readDirNames(w, path)])
                ELSE frames]

\* Walk visits path.
walkVisit(w, frames, path, fault) ==
    Visit(w, frames, path, fault # "os.Lstat" /\ Exists(w, path), IsDir(w, path),
          fault # "readDirNames")

\* Walk visits the next name of the innermost directory.
walkNext(w, frames, fault) ==
    walkVisit(w, [frames EXCEPT ![Len(frames)].names = Tail(@)],
              Join(frames[Len(frames)].path, Head(frames[Len(frames)].names)),
              fault)

(***************************************************************************)
(* The per-entry steps of the four tree copies                             *)
(***************************************************************************)

\* dstPath with a "/" at its end.
Slashed(dstPath) == IF HasSuffix(dstPath, "/") THEN dstPath ELSE dstPath \o "/"

\* The body of copyFromGcsToLocal's loop for one listed object.
entryGcsToLocal(w, srcBucket, srcPath, dstPath, srcFilePath, fault, n) ==
    LET relPath == StrFrom(srcFilePath, Len(srcPath) + 1)
    IN  IF relPath = ""
        THEN copyFileFromGcsToLocal(w, srcBucket, srcFilePath, dstPath, fault, n)
        ELSE copyFileFromGcsToLocal(w, srcBucket, srcFilePath,
                                    Join(dstPath, relPath), fault, n)

\* The callback copyFromLocalToGcs gives to filepath.Walk, once it has the
\* relative path.
relFnLocalToGcs(w, dstBucket, dstPath, srcFilePath, isDir, relFilePath, fault, n) ==
    IF relFilePath.err THEN Fatal(w, "filepath.Rel")
    ELSE IF relFilePath.path # "." /\ ~isDir
    THEN copyFileFromLocalToGcs(w, srcFilePath, dstBucket,
                                Slashed(dstPath) \o relFilePath.path, fault, n)
    ELSE Return(w)

\* The callback copyFromLocalToGcs gives to filepath.Walk.
walkFnLocalToGcs(w, srcPath, dstBucket, dstPath, srcFilePath, isDir, err, fault, n) ==
    IF err THEN Fatal(w, "walk")
    ELSE relFnLocalToGcs(w, dstBucket, dstPath, srcFilePath, isDir,
                         Rel(srcPath, srcFilePath), fault, n)

\* The body of copyFromGcsToGcs's loop for one listed object.
entryGcsToGcs(w, srcBucket, srcPath, dstBucket, dstPath, srcFilePath, fault) ==
    LET relFilePath == StrFrom(srcFilePath, Len(srcPath) + 1)
    IN  IF relFilePath = ""
        THEN copyFileFromGcsToGcs(w, srcBucket, srcFilePath, dstBucket, dstPath, fault)
        ELSE copyFileFromGcsToGcs(w, srcBucket, srcFilePath, dstBucket,
                                  Slashed(dstPath) \o relFilePath, fault)

\* A callback that puts every file directly below the destination root.
relFnFlat(w, dstPath, srcFilePath, isDir, relFilePath, fault, n) ==
    IF relFilePath.err THEN Fatal(w, "filepath.Rel")
    ELSE IF relFilePath.path # "." /\ ~isDir
    THEN copyFileFromLocalToLocal(w, srcFilePath,
             Join(dstPath, Elems(relFilePath.path)[Len(Elems(relFilePath.path))]),
             fault, n)
    ELSE Return(w)

\* A callback that also makes the destination's directory for a directory.
relFnMakesDirs(w, dstPath, srcFilePath, isDir, relFilePath, fault, n) ==
    IF relFilePath.err THEN Fatal(w, "filepath.Rel")
    ELSE IF relFilePath.path # "." /\ ~isDir
    THEN copyFileFromLocalToLocal(w, srcFilePath, Join(dstPath, relFilePath.path),
                                  fault, n)
    ELSE IF relFilePath.path # "."
    THEN Return(MkdirAll(w, Join(dstPath, relFilePath.path)))
    ELSE Return(w)

\* The callback copyFromLocalToLocal gives to filepath.Walk, once it has the
\* relative path.
relFnLocalToLocal(w, dstPath, srcFilePath, isDir, relFilePath, fault, n) ==
    IF relFilePath.err THEN Fatal(w, "filepath.Rel")
    ELSE IF relFilePath.path # "." /\ ~isDir
    THEN copyFileFromLocalToLocal(w, srcFilePath, Join(dstPath, relFilePath.path),
                                  fault, n)
    ELSE Return(w)

\* A callback that logs the walk's error and goes on with the walk.
walkFnLogsError(w, srcPath, dstPath, srcFilePath, isDir, err, fault, n) ==
    IF err THEN Return(Logged(w, <<"walk", srcFilePath>>))
    ELSE relFnLocalToLocal(w, dstPath, srcFilePath, isDir,
                           Rel(srcPath, srcFilePath), fault, n)

\* The callback copyFromLocalToLocal gives to filepath.Walk.
walkFnLocalToLocal(w, srcPath, dstPath, srcFilePath, isDir, err, fault, n) ==
    IF err THEN Fatal(w, "walk")
    ELSE relFnLocalToLocal(w, dstPath, srcFilePath, isDir,
                           Rel(srcPath, srcFilePath), fault, n)

(***************************************************************************)
(* The steps of the process                                                *)
(***************************************************************************)

\* The longest run of invocations that is followed.
MaxRuns == 2

\* The most positional arguments an invocation is given.
MaxArgs == 3

\* The most bytes a failing io.Copy has written before the error.
MaxPartial == 2

NoIterator == [fetched |-> FALSE, items |-> <<>>]

NoLocals ==
    [from |-> "", to |-> "", srcIsGcs |-> FALSE, dstIsGcs |-> FALSE,
     fromBkt |-> "", fromObj |-> "", toBkt |-> "", toObj |-> ""]

\* The process ends: the system closes its handles.
Exit(w, status) ==
    /\ SetWorld([w EXCEPT !.handles = {}])
    /\ pc' = "exited"
    /\ exitStatus' = status
    /\ walk' = <<>>
    /\ it' = NoIterator
    /\ runs' = Append(runs, [before |-> before, after |-> Snapshot(w),
                             status |-> status])
    /\ UNCHANGED <<args, before>>

Goto(w, next, frames, iter) ==
    /\ SetWorld(w)
    /\ pc' = next
    /\ walk' = frames
    /\ it' = iter
    /\ UNCHANGED <<args, before, exitStatus, runs>>

\* A routine handed back `out`: log.Fatal has ended the process, or it goes on.
After(out, next, frames, iter) ==
    IF out.fatal THEN Exit(out.w, 1) ELSE Goto(out.w, next, frames, iter)

\* A dispatch that takes the destination's classification for both.
DispatchByDestination(srcIsGcs, dstIsGcs) ==
    IF dstIsGcs THEN "copyFromGcsToGcs" ELSE "copyFromLocalToLocal"

\* The routine main calls for the two classifications.
Dispatch(srcIsGcs, dstIsGcs) ==
    IF srcIsGcs
    THEN IF dstIsGcs THEN "copyFromGcsToGcs" ELSE "copyFromGcsToLocal"
    ELSE IF dstIsGcs THEN "copyFromLocalToGcs" ELSE "copyFromLocalToLocal"

\* main's locals once both arguments are classified.
Classified(from, to, src, dst) ==
    [from |-> from, to |-> to, srcIsGcs |-> ~src.err, dstIsGcs |-> ~dst.err,
     fromBkt |-> src.bucket, fromObj |-> src.key,
     toBkt |-> dst.bucket, toObj |-> dst.key]

\* The i-th positional argument, empty when it is not given.
ArgOrEmpty(i) == IF i <= Len(args) THEN args[i] ELSE ""

\* main without the check of the number of arguments.
mainNoUsage ==
    /\ pc = "main"
    /\ cp' = Classified(ArgOrEmpty(1), ArgOrEmpty(2), splitGcsPath(ArgOrEmpty(1)),
                        splitGcsPath(ArgOrEmpty(2)))
    /\ Goto(Logged(Logged(World, <<"From", ArgOrEmpty(1)>>), <<"To", ArgOrEmpty(2)>>),
            Dispatch(cp'.srcIsGcs, cp'.dstIsGcs), <<>>, NoIterator)

\* main, up to the call of the copy routine it selects.
main ==
    /\ pc = "main"
    /\ IF Len(args) < 2
       THEN /\ Exit(Fatal(World, "Usage").w, 1)
            /\ UNCHANGED cp
       ELSE /\ cp' = Classified(args[1], args[2], splitGcsPath(args[1]),
                                splitGcsPath(args[2]))
            /\ Goto(Logged(Logged(World, <<"From", args[1]>>), <<"To", args[2]>>),
                    Dispatch(cp'.srcIsGcs, cp'.dstIsGcs), <<>>, NoIterator)

\* it.Next() fails when its first call cannot fetch the names.
itNextFails(fault) ==
    ~it.fetched /\ (fault = "it.Next" \/ cp.fromBkt \notin Buckets)

\* The world after it.Next(): the first call fetches the names.
itNextWorld(w, ok) ==
    IF it.fetched THEN w ELSE Op(w, "it.Next", <<cp.fromBkt, cp.fromObj>>, ok)

\* The names it.Next() has still to give: those of the objects of the source
\* bucket under the source prefix, as they were when first fetched.
itItems == IF it.fetched THEN it.items ELSE ListObjects(World, cp.fromBkt, cp.fromObj)

\* copyFromGcsToLocal up to its loop: the client is created.
copyFromGcsToLocal ==
    /\ pc = "copyFromGcsToLocal"
    /\ \E fault \in {"none", "storage.NewClient"} :
        After(NewClient(Return(Called(World, [fn |-> "copyFromGcsToLocal",
                                              src |-> <<cp.fromBkt, cp.fromObj>>,
                                              dst |-> cp.to])), fault),
              "loopGcsToLocal", <<>>, NoIterator)
    /\ UNCHANGED cp

\* One turn of copyFromGcsToLocal's loop.
loopGcsToLocal ==
    /\ pc = "loopGcsToLocal"
    /\ \E fault \in {"none", "it.Next", "storage.NewClient", "NewReader",
                     "os.MkdirAll", "os.OpenFile", "io.Copy", "Sync", "Close",
                     "Reader.Close"},
          n \in 0..MaxPartial :
        IF itNextFails(fault)
        THEN Exit(Fatal(itNextWorld(World, FALSE), "it.Next").w, 1)
        ELSE IF itItems = <<>>
        THEN Goto(itNextWorld(World, TRUE), "finished", <<>>, NoIterator)
        ELSE After(entryGcsToLocal(itNextWorld(World, TRUE), cp.fromBkt, cp.fromObj,
                                   cp.to, Head(itItems), fault, n),
                   "loopGcsToLocal", <<>>,
                   [fetched |-> TRUE, items |-> Tail(itItems)])
    /\ UNCHANGED cp

\* Where the process is after a visit of the walk of `loop`.
WalkPc(frames, loop) == IF frames = <<>> THEN "finished" ELSE loop

\* The world as a copy routine for a local source has called os.Stat.
Stat(fn, dst, ok) ==
    Op(Called(World, [fn |-> fn, src |-> cp.from, dst |-> dst]),
       "os.Stat", cp.from, ok)

\* Walk calls copyFromLocalToGcs's callback for the visit v.
visitLocalToGcs(v, fault, n) ==
    After(walkFnLocalToGcs(Called(v.w, [fn |-> "walkFn", path |-> v.path,
                                        err |-> v.err]),
                           cp.from, cp.toBkt, cp.toObj, v.path, v.isDir, v.err,
                           fault, n),
          WalkPc(PopDone(v.frames), "walkLocalToGcs"), PopDone(v.frames),
          NoIterator)

\* copyFromLocalToGcs up to the walk's first name: the source is looked at,
\* a regular file is copied, and the walk of a directory begins.
copyFromLocalToGcs ==
    /\ pc = "copyFromLocalToGcs"
    /\ \E fault \in {"none", "os.Stat", "os.Lstat", "readDirNames",
                     "storage.NewClient", "os.Open", "io.Copy", "Close",
                     "Client.Close"},
          n \in 0..MaxPartial :
        IF fault = "os.Stat" \/ ~Exists(World, cp.from)
        THEN Exit(Fatal(Stat("copyFromLocalToGcs", <<cp.toBkt, cp.toObj>>, FALSE),
                        "os.Stat").w, 1)
        ELSE IF ~IsDir(World, cp.from)
        THEN After(copyFileFromLocalToGcs(
                       Stat("copyFromLocalToGcs", <<cp.toBkt, cp.toObj>>, TRUE),
                       cp.from, cp.toBkt, cp.toObj, fault, n),
                   "finished", <<>>, NoIterator)
        ELSE visitLocalToGcs(
                 walkVisit(Stat("copyFromLocalToGcs", <<cp.toBkt, cp.toObj>>, TRUE),
                           <<>>, cp.from, fault),
                 fault, n)
    /\ UNCHANGED cp

\* filepath.Walk visits the next name for copyFromLocalToGcs.
walkLocalToGcs ==
    /\ pc = "walkLocalToGcs"
    /\ \E fault \in {"none", "os.Lstat", "readDirNames", "storage.NewClient",
                     "os.Open", "io.Copy", "Close", "Client.Close"},
          n \in 0..MaxPartial :
        visitLocalToGcs(walkNext(World, walk, fault), fault, n)
    /\ UNCHANGED cp

\* copyFromGcsToGcs up to its loop: the client is created.
copyFromGcsToGcs ==
    /\ pc = "copyFromGcsToGcs"
    /\ \E fault \in {"none", "storage.NewClient"} :
        After(NewClient(Return(Called(World, [fn |-> "copyFromGcsToGcs",
                                              src |-> <<cp.fromBkt, cp.fromObj>>,
                                              dst |-> <<cp.toBkt, cp.toObj>>])),
                        fault),
              "loopGcsToGcs", <<>>, NoIterator)
    /\ UNCHANGED cp

\* One turn of copyFromGcsToGcs's loop.
loopGcsToGcs ==
    /\ pc = "loopGcsToGcs"
    /\ \E fault \in {"none", "it.Next", "storage.NewClient", "Copier.Run",
                     "Client.Close"} :
        IF itNextFails(fault)
        THEN Exit(Fatal(itNextWorld(World, FALSE), "it.Next").w, 1)
        ELSE IF itItems = <<>>
        THEN Goto(itNextWorld(World, TRUE), "finished", <<>>, NoIterator)
        ELSE After(entryGcsToGcs(itNextWorld(World, TRUE), cp.fromBkt, cp.fromObj,
                                 cp.toBkt, cp.toObj, Head(itItems), fault),
                   "loopGcsToGcs", <<>>,
                   [fetched |-> TRUE, items |-> Tail(itItems)])
    /\ UNCHANGED cp

\* Walk calls copyFromLocalToLocal's callback for the visit v.
visitLocalToLocal(v, fault, n) ==
    After(walkFnLocalToLocal(Called(v.w, [fn |-> "walkFn", path |-> v.path,
                                          err |-> v.err]),
                             cp.from, cp.to, v.path, v.isDir, v.err, fault, n),
          WalkPc(PopDone(v.frames), "walkLocalToLocal"), PopDone(v.frames),
          NoIterator)

\* copyFromLocalToLocal up to the walk's first name: the source is looked at,
\* a regular file is copied, and the walk of a directory begins.
copyFromLocalToLocal ==
    /\ pc = "copyFromLocalToLocal"
    /\ \E fault \in {"none", "os.Stat", "os.Lstat", "readDirNames", "os.Open",
                     "os.MkdirAll", "os.OpenFile", "io.Copy", "Close"},
          n \in 0..MaxPartial :
        IF fault = "os.Stat" \/ ~Exists(World, cp.from)
        THEN Exit(Fatal(Stat("copyFromLocalToLocal", cp.to, FALSE), "os.Stat").w, 1)
        ELSE IF ~IsDir(World, cp.from)
        THEN After(copyFileFromLocalToLocal(Stat("copyFromLocalToLocal", cp.to, TRUE),
                                            cp.from, cp.to, fault, n),
                   "finished", <<>>, NoIterator)
        ELSE visitLocalToLocal(
                 walkVisit(Stat("copyFromLocalToLocal", cp.to, TRUE), <<>>, cp.from,
                           fault),
                 fault, n)
    /\ UNCHANGED cp

\* filepath.Walk visits the next name for copyFromLocalToLocal.
walkLocalToLocal ==
    /\ pc = "walkLocalToLocal"
    /\ \E fault \in {"none", "os.Lstat", "readDirNames", "os.Open",
                     "os.MkdirAll", "os.OpenFile", "io.Copy", "Close"},
          n \in 0..MaxPartial :
        visitLocalToLocal(walkNext(World, walk, fault), fault, n)
    /\ UNCHANGED cp

\* main after the copy routine has returned.
mainReturn ==
    /\ pc = "finished"
    /\ Exit(Logged(World, <<"Finished copying">>), 0)
    /\ UNCHANGED cp

\* The runtime's finalizer closes the files the program has dropped without
\* closing; when it runs, if at all, is up to the garbage collector.
Finalizer ==
    /\ pc \notin {"main", "exited"}
    /\ handles # {}
    /\ handles' = {}
    /\ UNCHANGED <<args, pc, exitStatus, cp, files, dirs, objects, nfd, ops, log,
                   calls, walk, it, before, runs>>

\* The same command is run again after a run that succeeded.
Rerun ==
    /\ pc = "exited"
    /\ exitStatus = 0
    /\ Len(runs) < MaxRuns
    /\ pc' = "main"
    /\ exitStatus' = -1
    /\ cp' = NoLocals
    /\ nfd' = 0
    /\ ops' = <<>>
    /\ log' = <<>>
    /\ calls' = <<>>
    /\ before' = Snapshot(World)
    /\ UNCHANGED <<args, files, dirs, objects, handles, walk, it, runs>>

(***************************************************************************)
(* The initial states                                                      *)
(***************************************************************************)

\* The content each local file of the initial trees has when it exists.
InitialContent ==
    [p \in {"D/a", "D/s/a", "E/a", "E/s", "E"} |->
        CASE p = "D/a" -> "x"
          [] p = "D/s/a" -> "ok"
          [] p = "E/a" -> "k"
          [] p = "E/s" -> "d"
          [] p = "E" -> "g"]

\* The local tree with the regular files `paths` and the empty directories
\* `empty`; with `blank`, every file is empty.
Tree(paths, empty, blank) ==
    [files |-> [p \in paths |-> IF blank THEN "" ELSE InitialContent[p]],
     dirs |-> UNION ({{"."}} \cup {Ancestors(Dir(p)) : p \in paths}
                              \cup {Ancestors(e) : e \in empty})]

\* Under D: any of D/a and D/s/a.  At E: nothing, a regular file E, or a
\* directory E with any of E/a and E/s.
LocalTrees ==
    {Tree(d \cup e, o, blank) :
        d \in SUBSET {"D/a", "D/s/a"},
        e \in {{"E"}} \cup SUBSET {"E/a", "E/s"},
        o \in SUBSET {"D/o/o"},
        blank \in BOOLEAN}

\* The trees the copies to and from a bucket start with.
SourceTrees ==
    {Tree(d, o, FALSE) : d \in SUBSET {"D/a", "D/s/a"}, o \in SUBSET {"D/o/o"}}

TargetTrees ==
    {Tree({"D/a"} \cup e, {}, FALSE) : e \in {{}, {"E"}, {"E/a"}}}

\* The content each object of bucket b has when it exists.
InitialObject ==
    [k \in {"d", "d/a", "d/s/a", "dx"} |->
        CASE k = "d" -> "g"
          [] k = "d/a" -> "x"
          [] k = "d/s/a" -> "ok"
          [] k = "dx" -> "k"]

ObjectsOf(bucket, keys) ==
    [o \in {<<bucket, k>> : k \in keys} |-> InitialObject[o[2]]]

SourceObjects == {ObjectsOf("b", keys) : keys \in SUBSET {"d", "d/a", "d/s/a", "dx"}}

TargetObjects == {ObjectsOf("o", {}), [o \in {<<"o", "k/a">>} |-> "dd"]}

LocalSources == {"D", "D/", "D/a", "X"}
LocalTargets == {"E", "E/", "E/a", "D", "D/s"}
GcsSources == {"gs://b/d", "gs://b/d/", "gs://b/"}
GcsTargets == {"gs://o/k", "gs://o/k/", "gs://o/", "gs://b/d", "gs:///k"}

\* Locations that are nearly of the gs://bucket/key shape.
OddSources == {"gs://b", "gs:///d", "gs://b/d\nx", "xgs://b/d", "gs:/b/d"}

\* The argument lists of up to MaxArgs arguments over one local and one
\* bucket location.
RECURSIVE ArgLists(_)
ArgLists(n) ==
    IF n = 0 THEN {<<>>}
    ELSE ArgLists(n - 1) \cup
         {Append(a, x) : a \in {b \in ArgLists(n - 1) : Len(b) = n - 1},
                         x \in {"D", "gs://b/d"}}

\* The process starts on `a` with the local tree and the objects given.
Start(a, tree, objs) ==
    /\ args = a
    /\ pc = "main"
    /\ exitStatus = -1
    /\ cp = NoLocals
    /\ files = tree.files
    /\ dirs = tree.dirs
    /\ objects = objs
    /\ handles = {}
    /\ nfd = 0
    /\ ops = <<>>
    /\ log = <<>>
    /\ calls = <<>>
    /\ walk = <<>>
    /\ it = NoIterator
    /\ before = [files |-> tree.files, dirs |-> tree.dirs, objects |-> objs]
    /\ runs = <<>>

Init ==
    \/ \E a \in ArgLists(MaxArgs) :
          Start(a, Tree({"D/a", "D/s/a"}, {}, FALSE), ObjectsOf("b", {"d/a", "d/s/a"}))
    \/ \E from \in LocalSources, to \in LocalTargets, tree \in LocalTrees :
          Start(<<from, to>>, tree, ObjectsOf("b", {}))
    \/ \E from \in LocalSources, to \in GcsTargets, tree \in SourceTrees,
          objs \in TargetObjects :
          Start(<<from, to>>, tree, objs)
    \/ \E from \in GcsSources, to \in LocalTargets, tree \in TargetTrees,
          objs \in SourceObjects :
          Start(<<from, to>>, tree, objs)
    \/ \E from \in GcsSources, to \in GcsTargets, objs \in SourceObjects :
          Start(<<from, to>>, Tree({}, {}, FALSE), objs)
    \/ \E from \in OddSources :
          Start(<<from, "E">>, Tree({"D/a"}, {}, FALSE), ObjectsOf("b", {"d/a"}))

Next ==
    \/ main
    \/ copyFromGcsToLocal
    \/ loopGcsToLocal
    \/ copyFromLocalToGcs
    \/ walkLocalToGcs
    \/ copyFromGcsToGcs
    \/ loopGcsToGcs
    \/ copyFromLocalToLocal
    \/ walkLocalToLocal
    \/ mainReturn
    \/ Finalizer
    \/ Rerun

Spec == Init /\ [][Next]_vars

(***************************************************************************)
(* What the properties are stated with                                     *)
(***************************************************************************)

\* Path p lies below directory d (both cleaned).
Below(p, d) == d = "." \/ HasPrefix(p, d \o "/")

\* s without its leading, and without its trailing, "/" bytes.
RECURSIVE TrimLeft(_)
TrimLeft(s) == IF HasPrefix(s, "/") THEN TrimLeft(StrFrom(s, 2)) ELSE s

RECURSIVE TrimRight(_)
TrimRight(s) == IF HasSuffix(s, "/") THEN TrimRight(SubSeq(s, 1, Len(s) - 1)) ELSE s

\* The elements of sequence q.
Range(q) == {q[i] : i \in 1..Len(q)}

RoutineNames ==
    {"copyFromGcsToGcs", "copyFromGcsToLocal", "copyFromLocalToGcs",
     "copyFromLocalToLocal"}

\* The copy routines main has called, in order.
RoutineCalls == SelectSeq(calls, LAMBDA c : c.fn \in RoutineNames)

\* The single-file transfers begun, in order.
TransferCalls ==
    SelectSeq(calls, LAMBDA c : c.fn \notin RoutineNames /\ c.fn # "walkFn")

\* The run has both arguments, and main has classified them.
Dispatched == Len(args) >= 2 /\ pc # "main"

LocalToLocalRun == Dispatched /\ ~cp.srcIsGcs /\ ~cp.dstIsGcs
GcsToGcsRun == Dispatched /\ cp.srcIsGcs /\ cp.dstIsGcs
GcsSourceRun == Dispatched /\ cp.srcIsGcs

Succeeded == pc = "exited" /\ exitStatus = 0

\* The regular files at or below directory d in a snapshot, by cleaned path.
FilesBelow(snap, d) == {p \in DOMAIN snap.files : Below(p, d)}

\* The path of p relative to the directory d it lies below.
RelativeTo(p, d) == IF d = "." THEN p ELSE StrFrom(p, Len(d) + 2)

\* The path at the same relative place below directory d2.
Mirror(p, d, d2) == IF d2 = "." THEN RelativeTo(p, d) ELSE d2 \o "/" \o RelativeTo(p, d)

(***************************************************************************)
(* The properties                                                          *)
(***************************************************************************)

\* A first run that copies the directory at args[1] to a local destination
\* that was absent when it began and does not lie in the source.
FreshTreeCopy ==
    /\ LocalToLocalRun
    /\ Len(runs) <= 1
    /\ Clean(cp.from) \in before.dirs
    /\ Clean(cp.to) \notin before.dirs \cup DOMAIN before.files
    /\ Clean(cp.to) # Clean(cp.from)
    /\ ~Below(Clean(cp.to), Clean(cp.from))

\* C1: when a local copy of a directory D to a fresh destination D2 outside D
\* has completed, every regular file below D has a file with the same content
\* at the same relative path below D2, and D2 holds no other file.
C1_TreeCopyMirrors ==
    (FreshTreeCopy /\ Succeeded) =>
        /\ \A f \in FilesBelow(before, Clean(cp.from)) :
              /\ Mirror(f, Clean(cp.from), Clean(cp.to)) \in DOMAIN files
              /\ files[Mirror(f, Clean(cp.from), Clean(cp.to))] = before.files[f]
        /\ {p \in DOMAIN files : p = Clean(cp.to) \/ Below(p, Clean(cp.to))}
              = {Mirror(f, Clean(cp.from), Clean(cp.to)) :
                    f \in FilesBelow(before, Clean(cp.from))}

\* A fresh tree copy has completed and has copied a file from a subdirectory
\* and a file from the top of the source.
C1_Witness ==
    /\ FreshTreeCopy
    /\ Succeeded
    /\ Cardinality(FilesBelow(before, Clean(cp.from))) = 2
    /\ \E f \in DOMAIN before.files : before.files[f] # ""

\* The ways to read s as gs://<bucket>/<key> with a bucket of one or more
\* bytes that are not "/": the <<bucket, key>> pairs.
RemoteShape(s) ==
    { <<SubSeq(s, 6, i - 1), StrFrom(s, i + 1)>> : i \in
        { j \in 7..Len(s) :
            /\ SubSeq(s, 1, 5) = "gs://"
            /\ Char(s, j) = "/"
            /\ \A k \in 6..(j - 1) : Char(s, k) # "/" } }

\* Location s was classified as the claim has it: remote exactly when it has
\* the shape, and then with the bucket and the key of the shape.
ClassifiedByShape(s, isGcs, bucket, key) ==
    /\ isGcs <=> RemoteShape(s) # {}
    /\ isGcs => <<bucket, key>> \in RemoteShape(s)

\* C2: a location is classified remote exactly when it has the shape
\* gs://<bucket>/<key> with a bucket of one or more non-slash bytes and any
\* key, and the bucket and key returned are those parts; every other string
\* (gs:///k, gs://b) is classified local.
C2_ClassifiedByShape ==
    Dispatched =>
        /\ ClassifiedByShape(args[1], cp.srcIsGcs, cp.fromBkt, cp.fromObj)
        /\ ClassifiedByShape(args[2], cp.dstIsGcs, cp.toBkt, cp.toObj)

\* The one routine main is to call for args: the one for the classifications
\* of the two locations.
Selected ==
    IF splitGcsPath(args[1]).err
    THEN IF splitGcsPath(args[2]).err THEN "copyFromLocalToLocal"
         ELSE "copyFromLocalToGcs"
    ELSE IF splitGcsPath(args[2]).err THEN "copyFromGcsToLocal"
         ELSE "copyFromGcsToGcs"

\* The single-file transfer each routine makes.
TransferOf ==
    [r \in RoutineNames |->
        CASE r = "copyFromGcsToGcs" -> "copyFileFromGcsToGcs"
          [] r = "copyFromGcsToLocal" -> "copyFileFromGcsToLocal"
          [] r = "copyFromLocalToGcs" -> "copyFileFromLocalToGcs"
          [] r = "copyFromLocalToLocal" -> "copyFileFromLocalToLocal"]

\* The operations of the given names, in order.
OpsNamed(names) == SelectSeq(ops, LAMBDA o : o[1] \in names)

\* C3: for every source and destination main calls exactly one of the four
\* copy routines, the one selected by the two classifications; between two
\* buckets every object is transferred by a server-side copy request, and the
\* process opens no object reader, no object writer and no local file.
C3_DispatchByClassification ==
    Dispatched =>
        /\ pc \in RoutineNames => pc = Selected /\ RoutineCalls = <<>>
        /\ pc \notin RoutineNames =>
              /\ Len(RoutineCalls) = 1
              /\ RoutineCalls[1].fn = Selected
        /\ \A c \in Range(TransferCalls) : c.fn = TransferOf[Selected]
        /\ GcsToGcsRun =>
              /\ \A o \in Range(ops) :
                    o[1] \in {"storage.NewClient", "it.Next", "Copier.Run",
                              "Client.Close"}
              /\ Succeeded =>
                    [i \in 1..Len(TransferCalls) |-> TransferCalls[i].src[2]]
                        = ListObjects(before, cp.fromBkt, cp.fromObj)
              /\ Succeeded =>
                    Len(OpsNamed({"Copier.Run"})) = Len(TransferCalls)

\* A copy between two buckets has completed and has transferred two objects.
C3_Witness ==
    /\ GcsToGcsRun
    /\ Succeeded
    /\ Len(OpsNamed({"Copier.Run"})) = 2

\* C5: given fewer than two arguments, main ends the process with a usage
\* message and status 1 before it classifies anything, issues any I/O
\* operation or calls a copy routine; no file, directory or object changes.
C5_UsageError ==
    Len(args) < 2 =>
        /\ pc \in {"main", "exited"}
        /\ cp = NoLocals
        /\ ops = <<>>
        /\ calls = <<>>
        /\ Snapshot(World) = before
        /\ pc = "exited" => exitStatus = 1 /\ log = << <<"Fatal", "Usage">> >>

\* main has ended the process that was given exactly one argument.
C5_Witness == Len(args) = 1 /\ pc = "exited"

\* The I/O steps of a transfer whose failure is to end the process: all but
\* the closing of a storage client and of an object reader.
TransferSteps ==
    {"storage.NewClient", "it.Next", "os.Stat", "os.Lstat", "readDirNames",
     "os.Open", "os.MkdirAll", "os.OpenFile", "NewReader", "NewWriter",
     "io.Copy", "Close", "Sync", "Copier.Run"}

\* C4: in a copy in any of the four directions, when an I/O step of a
\* transfer fails (client creation, list, open, read, write, close, sync,
\* server-side copy) the process ends there with status 1: the failed step is
\* the last one issued, no later transfer is begun, and "Finished copying" is
\* not logged.
C4_FatalOnFirstFailure ==
    \A i \in 1..Len(ops) :
        (ops[i][1] \in TransferSteps /\ ~ops[i][3]) =>
            /\ i = Len(ops)
            /\ pc = "exited"
            /\ exitStatus = 1
            /\ <<"Finished copying">> \notin Range(log)

\* The destination the claim gives the listed object `key` for the source
\* prefix and the destination root: the root itself for the object named as
\* the prefix, else the rest of the key beneath the root, joined by one "/".
BeneathRoot(root, prefix, key) ==
    IF key = prefix THEN {root}
    ELSE IF TrimRight(root) = ""
    THEN {TrimLeft(StrFrom(key, Len(prefix) + 1)),
          "/" \o TrimLeft(StrFrom(key, Len(prefix) + 1))}
    ELSE {TrimRight(root) \o "/" \o TrimLeft(StrFrom(key, Len(prefix) + 1))}

\* C7: in a copy from a bucket, every listed object is transferred exactly
\* once, the object named as the source prefix to the destination root
\* itself and any other to its relative path beneath the destination root
\* (prefix dir, object dir/a.txt, root out: out/a.txt), for a destination in
\* a bucket and a local one, with or without a "/" at the end of the prefix
\* and of the root.
C7_RemoteWalkDestination ==
    GcsSourceRun =>
        /\ \A c \in Range(TransferCalls) :
              IF cp.dstIsGcs
              THEN c.dst[2] \in BeneathRoot(cp.toObj, cp.fromObj, c.src[2])
              ELSE c.dst \in BeneathRoot(cp.to, cp.fromObj, c.src[2])
        /\ Succeeded =>
              [i \in 1..Len(TransferCalls) |-> TransferCalls[i].src[2]]
                  = ListObjects(before, cp.fromBkt, cp.fromObj)

\* C8: when copyFileFromLocalToLocal has returned, the handle of the source
\* file and the handle of the destination file are closed: in a local tree
\* copy no handle of an earlier transfer is open when the next one begins.
C8_HandlesClosedOnReturn ==
    (LocalToLocalRun /\ pc \in {"walkLocalToLocal", "finished"}) => handles = {}

\* The walk has called the callback with an error for an entry.
WalkErrorReported == \E c \in Range(calls) : c.fn = "walkFn" /\ c.err

\* C9: when the walk of a local source reports an error for an entry to the
\* callback, the error is logged and the process is not ended by it.
C9_WalkErrorNotEscalated ==
    WalkErrorReported => ~(pc = "exited" /\ exitStatus = 1)

\* C9 as amended: when the walk of a local source reports an error for an
\* entry to the callback, the callback hands it to log.Fatal: the process ends
\* there with status 1, the callback's call is the last call made, and
\* "Finished copying" is not logged.
C9_WalkErrorIsFatal ==
    WalkErrorReported =>
        /\ pc = "exited"
        /\ exitStatus = 1
        /\ calls[Len(calls)].fn = "walkFn" /\ calls[Len(calls)].err
        /\ log[Len(log)] = <<"Fatal", "walk">>
        /\ <<"Finished copying">> \notin Range(log)

\* The walk has reported an error for an entry after a file was copied.
C9_Witness ==
    /\ WalkErrorReported
    /\ TransferCalls # <<>>
    /\ pc = "exited"

\* f restricted to the keys in S.
Restrict(f, S) == [x \in DOMAIN f \cap S |-> f[x]]

\* The source of the copy as a snapshot has it: the objects of the source
\* bucket under the source prefix, or the local files and directories at and
\* below the source path.
SourceOf(snap) ==
    IF ~splitGcsPath(args[1]).err
    THEN [objects |-> Restrict(snap.objects,
                        {o \in DOMAIN snap.objects :
                            /\ o[1] = splitGcsPath(args[1]).bucket
                            /\ HasPrefix(o[2], splitGcsPath(args[1]).key)}),
          files |-> << >>, dirs |-> {}]
    ELSE [objects |-> << >>,
          files |-> Restrict(snap.files,
                      {p \in DOMAIN snap.files :
                          p = Clean(args[1]) \/ Below(p, Clean(args[1]))}),
          dirs |-> {d \in snap.dirs : d = Clean(args[1]) \/ Below(d, Clean(args[1]))}]

\* C6: when the same copy is run again after it succeeded and the source is
\* as it was for the run before, a run that succeeds leaves every file,
\* directory and object as the run before left it: destination files are
\* rewritten, not appended to, and nothing is added.
C6_RerunLeavesDestination ==
    \A i \in 2..Len(runs) :
        (/\ runs[i - 1].status = 0
         /\ runs[i].status = 0
         /\ SourceOf(runs[i].before) = SourceOf(runs[i - 1].before))
        => runs[i].after = runs[i - 1].after

\* A copy that wrote files with content has been run twice on the same
\* source.
C6_Witness ==
    /\ Len(runs) = 2
    /\ runs[1].status = 0
    /\ runs[2].status = 0
    /\ SourceOf(runs[2].before) = SourceOf(runs[1].before)
    /\ runs[1].after # runs[1].before
    /\ \E p \in DOMAIN runs[1].after.files :
          /\ p \notin DOMAIN runs[1].before.files
          /\ runs[1].after.files[p] # ""

\* The local source is a regular file as the run begins.
SourceIsFile == Clean(cp.from) \in DOMAIN before.files

\* The destination paths of the source files: the destination itself for a
\* source that is a regular file, else the path at the same relative place
\* below the destination for every file that is, or was as the run began,
\* below the source directory.
DestinationPaths ==
    IF SourceIsFile THEN {Clean(cp.to)}
    ELSE {Mirror(f, Clean(cp.from), Clean(cp.to)) :
            f \in FilesBelow(before, Clean(cp.from))
                    \cup FilesBelow(World, Clean(cp.from))}

\* The destination paths as they are handed to the transfers: the destination
\* argument as given for a source that is a regular file.
DestinationNames ==
    IF SourceIsFile THEN {cp.to} ELSE DestinationPaths

\* C10: throughout a local copy, every file there was as the run began and
\* whose path is not the destination path of a source file is still there
\* with the content it had, no file and no directory is removed, and the
\* only directories created are the directory of a destination path and those
\* above it: a source directory with no file in or below it gives none.
C10_CopyOnly ==
    LocalToLocalRun =>
        /\ DOMAIN before.files \subseteq DOMAIN files
        /\ before.dirs \subseteq dirs
        /\ \A p \in DOMAIN before.files \ DestinationPaths :
              files[p] = before.files[p]
        /\ \A d \in dirs \ before.dirs :
              \E p \in DestinationNames : d = Dir(p) \/ Below(Dir(p), d)

\* A local copy of a tree with an empty directory has completed and has
\* overwritten a file of the destination, next to a file it had no reason to
\* touch.
C10_Witness ==
    /\ LocalToLocalRun
    /\ Succeeded
    /\ Len(runs) = 1
    /\ "D/o/o" \in before.dirs
    /\ "E/s" \in DOMAIN before.files
    /\ \E p \in DOMAIN before.files : files[p] # before.files[p]

=============================================================================
